---------------------------- MODULE Spec2Model ----------------------------
(***************************************************************************)
(* Model of the dxvk barrier tracking structures of src/dxvk/dxvk_barrier.h *)
(*                                                                         *)
(*  - DxvkBarrierTracker: 32+32 hash buckets, each the root of a red-black *)
(*    tree of address ranges held in a pooled node array.                  *)
(*  - DxvkBarrierSubresourceSet<K,T>: versioned open-addressed hash table  *)
(*    with per-resource overflow lists of buffer or image slices.          *)
(*                                                                         *)
(* The two structures are independent objects; each has its own            *)
(* specification (Spec for the range tracker, SetSpec for the subresource  *)
(* set) over the same variables, the other object staying as constructed.  *)
(***************************************************************************)
EXTENDS Integers, Sequences, FiniteSets, TLC

(***************************************************************************)
(* Bounds of the model.                                                    *)
(***************************************************************************)
\* Largest rangeStart / rangeEnd value used for inserted and queried ranges.
MaxAddr == 2
\* Number of insertRange calls between two clear() calls of the tracker.
MaxInserts == 3
\* Number of clear() calls of the tracker in one behaviour.
MaxClears == 1
\* Number of insertRange calls before the algebraic laws are applied.
MaxLawInserts == 2
\* Number of insertRange calls on the single bucket tree.
MaxTreeInserts == 6
\* Number of distinct resources inserted one after the other into the
\* subresource set (the table grows from 64 slots at the 46th).
MaxFill == 46
\* Number of inserts on the two resources that take arbitrary slices.
MaxHot == 2
\* Number of clear() calls of the subresource set in one behaviour, and the
\* number of resources inserted at most before such a call.
MaxSetClears == 1
MaxPreClearFill == 1
\* Largest buffer offset, array layer and mip level of the slices.
MaxOff == 2
MaxLayer == 1
MaxLevel == 1
\* Number of inserts on the two resources whose overflow lists are followed,
\* and the largest array layer of their image slices.
MaxListInserts == 4
MaxListLayer == 2
\* Largest buffer offset, array layer and mip level of the slices that the
\* slice operations are applied to directly.
MaxExtent == 2
\* Node indices next to 0 and next to NodeIndexMask packed into a header.
MaxLowIndex == 1

(***************************************************************************)
(* Access classes (DxvkAccess) and small helpers.                          *)
(***************************************************************************)
Read == "Read"
Write == "Write"
Access == {Read, Write}

Min(a, b) == IF a < b THEN a ELSE b
Max(a, b) == IF a > b THEN a ELSE b

RECURSIVE Pow2(_)
Pow2(n) == IF n = 0 THEN 1 ELSE 2 * Pow2(n - 1)

\* Bitwise exclusive or of two naturals, bit by bit.
RECURSIVE BitXor(_, _)
BitXor(a, b) ==
    IF a = 0 THEN b
    ELSE IF b = 0 THEN a
    ELSE (((a % 2) + (b % 2)) % 2) + (2 * BitXor(a \div 2, b \div 2))

\* Bitwise and with a mask of the form 2^k - 1.
BitAndMask(a, mask) == a % (mask + 1)

(***************************************************************************)
(* DxvkAddressRange                                                        *)
(***************************************************************************)
\* Resource handles used by the model. 7 and 8 fall into the same bucket
\* of the tracker (computeRootIndex), 3 falls into another one.
Resources == {7, 8}
QueryResources == {3, 7, 8}

AddressRange(res, lo, hi) == [resource |-> res, rangeStart |-> lo, rangeEnd |-> hi]

RangesOf(R) ==
    { AddressRange(r, lo, hi) : r \in R, lo \in 0..MaxAddr, hi \in 0..MaxAddr }

\* Ranges the callers pass: rangeStart <= rangeEnd.
Ranges == { r \in RangesOf(Resources) : r.rangeStart <= r.rangeEnd }
QueryRanges == { r \in RangesOf(QueryResources) : r.rangeStart <= r.rangeEnd }

containsNoEnd(a, other) ==
    /\ a.resource = other.resource
    /\ a.rangeStart <= other.rangeStart

contains(a, other) ==
    /\ a.resource = other.resource
    /\ a.rangeStart <= other.rangeStart
    /\ a.rangeEnd >= other.rangeEnd

overlapsExclusive(a, other) ==
    /\ a.resource = other.resource
    /\ a.rangeEnd > other.rangeStart
    /\ a.rangeStart < other.rangeEnd

overlaps(a, other) ==
    /\ a.resource = other.resource
    /\ a.rangeEnd >= other.rangeStart
    /\ a.rangeStart <= other.rangeEnd

ltNoResource(a, other) == a.rangeStart < other.rangeStart

lt(a, other) ==
    \/ a.resource < other.resource
    \/ (a.resource = other.resource /\ a.rangeStart < other.rangeStart)

(***************************************************************************)
(* DxvkBarrierTreeNode: packed header and address range.  The header is    *)
(* kept field by field; every field is NodeIndexMask wide except the       *)
(* colour bit.                                                             *)
(***************************************************************************)
NodeIndexMask == Pow2(21) - 1

NullRange == AddressRange(0, 0, 0)
NullHeader == [red |-> FALSE, c0 |-> 0, c1 |-> 0, par |-> 0]
NullNode == [header |-> NullHeader, addressRange |-> NullRange]

setRedIgnored(n, red) == n

setRed(n, red) == [n EXCEPT !.header.red = red]
isRed(n) == n.header.red
setParentIgnored(n, node) == n

setParent(n, node) == [n EXCEPT !.header.par = BitAndMask(node, NodeIndexMask)]
setChild(n, index, node) ==
    IF index # 0
    THEN [n EXCEPT !.header.c1 = BitAndMask(node, NodeIndexMask)]
    ELSE [n EXCEPT !.header.c0 = BitAndMask(node, NodeIndexMask)]
parent(n) == BitAndMask(n.header.par, NodeIndexMask)
child(n, index) ==
    IF index # 0
    THEN BitAndMask(n.header.c1, NodeIndexMask)
    ELSE BitAndMask(n.header.c0, NodeIndexMask)
isRoot(n) == parent(n) = 0

(***************************************************************************)
(* The packed header itself: the uint64_t as the set of its set bits,      *)
(* bit 0 the colour, then three fields of IndexBits bits.  A packed node   *)
(* is a record of the header bits and the address range.                   *)
(***************************************************************************)
HeaderBits == 64
IndexBits == 21
ParentShift == 43

ChildShift(index) == IF index # 0 THEN 22 ELSE 1

\* uint64_t(node) << shift: the set bits of node moved up, those beyond
\* bit 63 lost.
ShiftedBits(node, shift) ==
    { shift + i : i \in { j \in 0..(HeaderBits - 1 - shift) :
                            j < 31 /\ (node \div Pow2(j)) % 2 = 1 } }

\* NodeIndexMask << shift.
FieldMask(shift) ==
    { b \in 0..(HeaderBits - 1) : shift <= b /\ b < shift + IndexBits }

\* (header >> shift) & NodeIndexMask.
RECURSIVE FieldValueFrom(_, _, _)
FieldValueFrom(header, shift, i) ==
    IF i >= IndexBits THEN 0
    ELSE (IF (shift + i) \in header THEN Pow2(i) ELSE 0)
           + FieldValueFrom(header, shift, i + 1)

FieldValue(header, shift) == FieldValueFrom(header, shift, 0)

packedSetRed(n, red) ==
    [n EXCEPT !.header = (@ \ {0}) \cup (IF red THEN {0} ELSE {})]

packedIsRed(n) == 0 \in n.header

packedSetParent(n, node) ==
    [n EXCEPT !.header =
        (@ \ FieldMask(ParentShift)) \cup ShiftedBits(node, ParentShift)]

packedSetChildNoClear(n, index, node) ==
    [n EXCEPT !.header = @ \cup ShiftedBits(node, ChildShift(index))]

packedSetChild(n, index, node) ==
    [n EXCEPT !.header =
        (@ \ FieldMask(ChildShift(index))) \cup ShiftedBits(node, ChildShift(index))]

packedParent(n) == FieldValue(n.header, ParentShift)

packedChild(n, index) == FieldValue(n.header, ChildShift(index))

\* The node whose header packs the given colour and indices.
PackedNode(red, c0, c1, par, range) ==
    [ header |-> (IF red THEN {0} ELSE {})
                   \cup ShiftedBits(c0, ChildShift(0))
                   \cup ShiftedBits(c1, ChildShift(1))
                   \cup ShiftedBits(par, ParentShift),
      addressRange |-> range ]

(***************************************************************************)
(* DxvkBarrierTracker: bucket routing.                                     *)
(***************************************************************************)
HashTableSize == 32
HashMul == 93887
HashShift == 16

Buckets == 1..(2 * HashTableSize)

\* size_t hash = size_t(resource) * 93887; hash ^= (hash >> 16), tabulated
\* once for the resource handles of the model.
ResourceHash ==
    [ r \in QueryResources |->
        BitXor(r * HashMul, (r * HashMul) \div Pow2(HashShift)) ]

computeRootIndexNoAccess(range, access) ==
    1 + (ResourceHash[range.resource] % HashTableSize)

computeRootIndex(range, access) ==
    1 + (ResourceHash[range.resource] % HashTableSize)
      + (IF access = Write THEN HashTableSize ELSE 0)

(***************************************************************************)
(* DxvkBarrierTracker: the tracker object T is the record                  *)
(*   nodes   : m_nodes, a function over 0..size-1 (index 0 is the null     *)
(*             node),                                                      *)
(*   free    : m_free, the stack of released node indices,                 *)
(*   root    : the root node index of each bucket tree (0: no tree),        *)
(*   valid   : m_rootMaskValid as the set of its set bits,                 *)
(*   subtree : m_rootMaskSubtree as the set of its set bits.               *)
(***************************************************************************)
EmptyTracker ==
    [ nodes   |-> [i \in {0} |-> NullNode],
      free    |-> << >>,
      root    |-> [b \in Buckets |-> 0],
      valid   |-> {},
      subtree |-> {},
      removed |-> 0,
      rootRemoved |-> FALSE ]

NodeCount(T) == Cardinality(DOMAIN T.nodes)

Upd(T, i, n) == [T EXCEPT !.nodes[i] = n]
SetC(T, i, index, v) == Upd(T, i, setChild(T.nodes[i], index, v))
SetP(T, i, v) == Upd(T, i, setParent(T.nodes[i], v))
SetR(T, i, red) == Upd(T, i, setRed(T.nodes[i], red))
SetRoot(T, rootIndex, v) == [T EXCEPT !.root[rootIndex] = v]

\* Pops the freelist if it is not empty, else extends the node array.
allocateNode(T) ==
    IF Len(T.free) > 0
    THEN [ t     |-> [T EXCEPT !.free = SubSeq(T.free, 1, Len(T.free) - 1)],
           index |-> T.free[Len(T.free)] ]
    ELSE LET k == NodeCount(T)
         IN  [ t     |-> [T EXCEPT !.nodes =
                             [i \in 0..k |-> IF i < k THEN T.nodes[i] ELSE NullNode]],
               index |-> k ]

freeNode(T, node) == [T EXCEPT !.free = Append(T.free, node)]

\* Rotation around nodeIndex; dir = 0 is the left rotation (the right child
\* moves up), dir = 1 the right rotation.
Rotate(T, x, dir, rootIndex) ==
    LET y  == child(T.nodes[x], 1 - dir)
        yl == child(T.nodes[y], dir)
        xp == parent(T.nodes[x])
        T1 == SetC(T, x, 1 - dir, yl)
        T2 == IF yl # 0 THEN SetP(T1, yl, x) ELSE T1
        T3 == SetP(T2, y, xp)
        T4 == IF xp = 0 THEN SetRoot(T3, rootIndex, y)
              ELSE IF child(T.nodes[xp], 0) = x THEN SetC(T3, xp, 0, y)
              ELSE SetC(T3, xp, 1, y)
        T5 == SetC(T4, y, dir, x)
    IN  SetP(T5, x, y)

rotateLeft(T, nodeIndex, rootIndex) == Rotate(T, nodeIndex, 0, rootIndex)
rotateRight(T, nodeIndex, rootIndex) == Rotate(T, nodeIndex, 1, rootIndex)

\* Red-black fixup after attaching the red leaf nodeIndex; the bucket root
\* is forced black at the end.
RECURSIVE rebalancePostInsert(_, _, _)
rebalancePostInsert(T, z, rootIndex) ==
    LET p == parent(T.nodes[z])
    IN  IF p = 0 \/ ~isRed(T.nodes[p])
        THEN SetR(T, T.root[rootIndex], FALSE)
        ELSE
          LET g   == parent(T.nodes[p])
              dir == IF child(T.nodes[g], 0) = p THEN 0 ELSE 1
              y   == child(T.nodes[g], 1 - dir)
          IN  IF y # 0 /\ isRed(T.nodes[y])
              THEN rebalancePostInsert(
                     SetR(SetR(SetR(T, p, FALSE), y, FALSE), g, TRUE), g, rootIndex)
              ELSE
                LET inner == child(T.nodes[p], 1 - dir) = z
                    T1 == IF inner THEN Rotate(T, p, dir, rootIndex) ELSE T
                    z1 == IF inner THEN p ELSE z
                    p1 == parent(T1.nodes[z1])
                    g1 == parent(T1.nodes[p1])
                    T2 == SetR(SetR(T1, p1, FALSE), g1, TRUE)
                IN  rebalancePostInsert(Rotate(T2, g1, 1 - dir, rootIndex), z1, rootIndex)

\* Replaces the subtree rooted at u by the subtree rooted at v.
Transplant(T, u, v, rootIndex) ==
    LET up == parent(T.nodes[u])
        T1 == IF up = 0 THEN SetRoot(T, rootIndex, v)
              ELSE IF child(T.nodes[up], 0) = u THEN SetC(T, up, 0, v)
              ELSE SetC(T, up, 1, v)
    IN  SetP(T1, v, up)

RECURSIVE Minimum(_, _)
Minimum(T, x) ==
    IF child(T.nodes[x], 0) = 0 THEN x ELSE Minimum(T, child(T.nodes[x], 0))

\* Double-black fixup of the removal, the dual of the insert fixup.
RECURSIVE rebalancePostRemove(_, _, _)
rebalancePostRemove(T, x, rootIndex) ==
    IF x = T.root[rootIndex] \/ isRed(T.nodes[x])
    THEN SetR(T, x, FALSE)
    ELSE
      LET p   == parent(T.nodes[x])
          dir == IF child(T.nodes[p], 0) = x THEN 0 ELSE 1
          w   == child(T.nodes[p], 1 - dir)
      IN  IF isRed(T.nodes[w])
          THEN rebalancePostRemove(
                 Rotate(SetR(SetR(T, w, FALSE), p, TRUE), p, dir, rootIndex), x, rootIndex)
          ELSE IF /\ ~isRed(T.nodes[child(T.nodes[w], 0)])
                  /\ ~isRed(T.nodes[child(T.nodes[w], 1)])
          THEN rebalancePostRemove(SetR(T, w, TRUE), p, rootIndex)
          ELSE
            LET T1 == IF ~isRed(T.nodes[child(T.nodes[w], 1 - dir)])
                      THEN Rotate(SetR(SetR(T, child(T.nodes[w], dir), FALSE), w, TRUE),
                                  w, 1 - dir, rootIndex)
                      ELSE T
                w1 == child(T1.nodes[p], 1 - dir)
                T2 == SetR(T1, w1, isRed(T1.nodes[p]))
                T3 == SetR(T2, p, FALSE)
                T4 == SetR(T3, child(T3.nodes[w1], 1 - dir), FALSE)
                T5 == Rotate(T4, p, dir, rootIndex)
            IN  SetR(T5, T5.root[rootIndex], FALSE)

\* Textbook red-black deletion with the null node of index 0 as sentinel;
\* the bucket's mask bits are cleared when its tree becomes empty.
removeNode(T, z, rootIndex) ==
    LET zl == child(T.nodes[z], 0)
        zr == child(T.nodes[z], 1)
        y  == IF zl = 0 \/ zr = 0 THEN z ELSE Minimum(T, zr)
        yRed == isRed(T.nodes[y])
        x  == IF zl = 0 THEN zr ELSE IF zr = 0 THEN zl ELSE child(T.nodes[y], 1)
        Ta == IF zl = 0 THEN Transplant(T, z, zr, rootIndex)
              ELSE IF zr = 0 THEN Transplant(T, z, zl, rootIndex)
              ELSE
                LET A == IF parent(T.nodes[y]) = z
                         THEN SetP(T, x, y)
                         ELSE SetP(SetC(Transplant(T, y, x, rootIndex), y, 1, zr), zr, y)
                    B == Transplant(A, z, y, rootIndex)
                    C == SetP(SetC(B, y, 0, zl), zl, y)
                IN  SetR(C, y, isRed(T.nodes[z]))
        Tb == IF yRed THEN Ta ELSE rebalancePostRemove(Ta, x, rootIndex)
        Tc == Upd(Tb, 0, NullNode)
    IN  IF Tc.root[rootIndex] = 0
        THEN [Tc EXCEPT !.valid = @ \ {rootIndex - 1}, !.subtree = @ \ {rootIndex - 1}]
        ELSE Tc

\* Walks the tree of one bucket and returns the index of a node whose range
\* contains the given range, or 0.
RECURSIVE findWalk(_, _, _)
findWalk(T, range, nodeIndex) ==
    IF nodeIndex = 0 THEN 0
    ELSE IF contains(T.nodes[nodeIndex].addressRange, range) THEN nodeIndex
    ELSE IF lt(range, T.nodes[nodeIndex].addressRange)
    THEN findWalk(T, range, child(T.nodes[nodeIndex], 0))
    ELSE findWalk(T, range, child(T.nodes[nodeIndex], 1))

findNode(T, range, rootIndex) ==
    IF (rootIndex - 1) \notin T.valid THEN 0
    ELSE findWalk(T, range, T.root[rootIndex])

\* The write bucket is searched always, the read bucket when the incoming
\* access is a write.
findRange(T, range, accessType) ==
    \/ findNode(T, range, computeRootIndex(range, Write)) # 0
    \/ /\ accessType = Write
       /\ findNode(T, range, computeRootIndex(range, Read)) # 0

emptyInverted(T) == T.valid # {}

empty(T) == T.valid = {}

\* The union of two ranges of one resource: min(start), max(end).
widen(range, other) ==
    AddressRange(range.resource,
                 Min(range.rangeStart, other.rangeStart),
                 Max(range.rangeEnd, other.rangeEnd))

\* A dominated node is removed from its tree and given back to the pool.
\* removed / rootRemoved only record what the running insertRange call did.
dropNode(T, nodeIndex, rootIndex) ==
    [freeNode(removeNode(T, nodeIndex, rootIndex), nodeIndex) EXCEPT
        !.removed = @ + 1,
        !.rootRemoved = @ \/ (T.root[rootIndex] = nodeIndex)]

\* Inserts the range into the tree of one bucket: an empty bucket gets a
\* black root; otherwise the tree is descended by lt.  A node containing the
\* range ends the insertion; a node the range contains or overlaps is removed,
\* the range widened to the union, and the descent restarted; at a null child
\* the range is attached as a red leaf and the tree rebalanced.
RECURSIVE insertNode(_, _, _)
RECURSIVE insertDescend(_, _, _, _)
insertDescend(T, range, rootIndex, nodeIndex) ==
    LET nodeRange == T.nodes[nodeIndex].addressRange
    IN  IF contains(nodeRange, range)
        THEN T
        ELSE IF contains(range, nodeRange) \/ overlaps(range, nodeRange)
        THEN insertNode(dropNode(T, nodeIndex, rootIndex),
                        widen(range, nodeRange), rootIndex)
        ELSE
          LET dir  == IF lt(range, nodeRange) THEN 0 ELSE 1
              next == child(T.nodes[nodeIndex], dir)
          IN  IF next # 0
              THEN insertDescend(T, range, rootIndex, next)
              ELSE
                LET a  == allocateNode(T)
                    n  == setParent(setRed([header |-> NullHeader,
                                            addressRange |-> range], TRUE), nodeIndex)
                    T1 == SetC(Upd(a.t, a.index, n), nodeIndex, dir, a.index)
                IN  rebalancePostInsert(T1, a.index, rootIndex)

insertNode(T, range, rootIndex) ==
    IF T.root[rootIndex] = 0
    THEN LET a == allocateNode(T)
             n == [header |-> NullHeader, addressRange |-> range]
         IN  [SetRoot(Upd(a.t, a.index, n), rootIndex, a.index) EXCEPT
                 !.valid = @ \cup {rootIndex - 1},
                 !.subtree = @ \cup {rootIndex - 1}]
    ELSE insertDescend(T, range, rootIndex, T.root[rootIndex])

insertRange(T, range, accessType) ==
    insertNode([T EXCEPT !.removed = 0, !.rootRemoved = FALSE],
               range, computeRootIndex(range, accessType))

clear(T) == EmptyTracker

(***************************************************************************)
(* DxvkAccessFlags: a set of access classes.                               *)
(***************************************************************************)
AccessFlags == SUBSET Access

(***************************************************************************)
(* DxvkBarrierBufferSlice                                                  *)
(***************************************************************************)
BufferSlice(offset, length, access) ==
    [m_loAddr |-> offset, m_hiAddr |-> offset + length, m_access |-> access]

DefaultBufferSlice == [m_loAddr |-> 0, m_hiAddr |-> 0, m_access |-> {}]

bufOverlaps(a, slice) ==
    a.m_hiAddr > slice.m_loAddr /\ a.m_loAddr < slice.m_hiAddr

bufIsDirty(a, slice) ==
    (Write \in (slice.m_access \cup a.m_access)) /\ bufOverlaps(a, slice)

bufCanMerge(a, slice) ==
    IF a.m_access = slice.m_access
    THEN a.m_hiAddr >= slice.m_loAddr /\ a.m_loAddr <= slice.m_hiAddr
    ELSE a.m_loAddr = slice.m_loAddr /\ a.m_hiAddr = slice.m_hiAddr

bufMerge(a, slice) ==
    [m_loAddr |-> Min(a.m_loAddr, slice.m_loAddr),
     m_hiAddr |-> Max(a.m_hiAddr, slice.m_hiAddr),
     m_access |-> a.m_access \cup slice.m_access]

(***************************************************************************)
(* DxvkBarrierImageSlice; the aspect mask is the set of its set bits.      *)
(***************************************************************************)
SubresourceRange(aspectMask, baseArrayLayer, layerCount, baseMipLevel, levelCount) ==
    [aspectMask |-> aspectMask,
     baseArrayLayer |-> baseArrayLayer, layerCount |-> layerCount,
     baseMipLevel |-> baseMipLevel, levelCount |-> levelCount]

ImageSlice(range, access) ==
    [m_aspects  |-> range.aspectMask,
     m_minLayer |-> range.baseArrayLayer,
     m_maxLayer |-> range.baseArrayLayer + range.layerCount,
     m_minLevel |-> range.baseMipLevel,
     m_maxLevel |-> range.baseMipLevel + range.levelCount,
     m_access   |-> access]

DefaultImageSlice ==
    [m_aspects |-> {}, m_minLayer |-> 0, m_maxLayer |-> 0,
     m_minLevel |-> 0, m_maxLevel |-> 0, m_access |-> {}]

imgOverlaps(a, slice) ==
    /\ (a.m_aspects \cap slice.m_aspects) # {}
    /\ a.m_minLayer < slice.m_maxLayer
    /\ a.m_maxLayer > slice.m_minLayer
    /\ a.m_minLevel < slice.m_maxLevel
    /\ a.m_maxLevel > slice.m_minLevel

imgIsDirty(a, slice) ==
    (Write \in (slice.m_access \cup a.m_access)) /\ imgOverlaps(a, slice)

imgCanMergeAnyAccess(a, slice) ==
    LET sameLayers == a.m_minLayer = slice.m_minLayer /\ a.m_maxLayer = slice.m_maxLayer
        sameLevels == a.m_minLevel = slice.m_minLevel /\ a.m_maxLevel = slice.m_maxLevel
    IN  IF sameLayers = sameLevels THEN sameLayers
        ELSE IF sameLayers
        THEN a.m_maxLevel >= slice.m_minLevel /\ a.m_minLevel <= slice.m_maxLevel
        ELSE a.m_maxLayer >= slice.m_minLayer /\ a.m_minLayer <= slice.m_maxLayer

imgCanMerge(a, slice) ==
    LET sameLayers == a.m_minLayer = slice.m_minLayer /\ a.m_maxLayer = slice.m_maxLayer
        sameLevels == a.m_minLevel = slice.m_minLevel /\ a.m_maxLevel = slice.m_maxLevel
    IN  IF sameLayers = sameLevels THEN sameLayers
        ELSE IF a.m_access # slice.m_access THEN FALSE
        ELSE IF sameLayers
        THEN a.m_maxLevel >= slice.m_minLevel /\ a.m_minLevel <= slice.m_maxLevel
        ELSE a.m_maxLayer >= slice.m_minLayer /\ a.m_minLayer <= slice.m_maxLayer

imgMergeKeepAspects(a, slice) ==
    [m_aspects  |-> a.m_aspects,
     m_minLayer |-> Min(a.m_minLayer, slice.m_minLayer),
     m_maxLayer |-> Max(a.m_maxLayer, slice.m_maxLayer),
     m_minLevel |-> Min(a.m_minLevel, slice.m_minLevel),
     m_maxLevel |-> Max(a.m_maxLevel, slice.m_maxLevel),
     m_access   |-> a.m_access \cup slice.m_access]

imgMerge(a, slice) ==
    [m_aspects  |-> a.m_aspects \cup slice.m_aspects,
     m_minLayer |-> Min(a.m_minLayer, slice.m_minLayer),
     m_maxLayer |-> Max(a.m_maxLayer, slice.m_maxLayer),
     m_minLevel |-> Min(a.m_minLevel, slice.m_minLevel),
     m_maxLevel |-> Max(a.m_maxLevel, slice.m_maxLevel),
     m_access   |-> a.m_access \cup slice.m_access]

(***************************************************************************)
(* The slice type T of DxvkBarrierSubresourceSet<K, T>: the operations of  *)
(* the instantiated slice class.                                           *)
(***************************************************************************)
IsImageSlice(slice) == "m_aspects" \in DOMAIN slice

sliceOverlaps(a, slice) ==
    IF IsImageSlice(a) THEN imgOverlaps(a, slice) ELSE bufOverlaps(a, slice)
sliceIsDirty(a, slice) ==
    IF IsImageSlice(a) THEN imgIsDirty(a, slice) ELSE bufIsDirty(a, slice)
sliceCanMerge(a, slice) ==
    IF IsImageSlice(a) THEN imgCanMerge(a, slice) ELSE bufCanMerge(a, slice)
sliceMerge(a, slice) ==
    IF IsImageSlice(a) THEN imgMerge(a, slice) ELSE bufMerge(a, slice)
sliceGetAccess(a) == a.m_access
DefaultSlice(type) ==
    IF type = "image" THEN DefaultImageSlice ELSE DefaultBufferSlice

(***************************************************************************)
(* DxvkBarrierSubresourceSet<K, T>.  The set object S is the record        *)
(*   version, used, indexMask : m_version, m_used, m_indexMask,            *)
(*   list    : m_list, entry i of the vector at position i + 1,            *)
(*   hashMap : m_hashMap, a function over 0..size-1.                       *)
(* A HashEntry* or ListEntry* is the index of the entry, NullEntry for      *)
(* nullptr.                                                                *)
(***************************************************************************)
\* ~0u; the top list index, which no list of the model reaches.
NoEntry == 2147483647
NullEntry == -1
\* Result of a probe that visited every slot without finding a vacant one
\* (the loop of the code would not end).
ProbeDiverges == -2

InitialHashSize == 64

\* Resource handles of the model.
FillKeys == 1..62
HotKeys == {63, 64}
Keys == FillKeys \cup HotKeys

\* computeHash, tabulated once for the handles of the model.
KeyHash ==
    [ k \in Keys \cup {0} |->
        BitXor(k * HashMul, (k * HashMul) \div Pow2(HashShift)) ]

computeHash(key) == KeyHash[key]

EmptySet ==
    [ version   |-> 1,
      used      |-> 0,
      indexMask |-> 0,
      list      |-> << >>,
      hashMap   |-> << >> ]

computeSize(S) == IF S.indexMask # 0 THEN S.indexMask + 1 ELSE 0

computeIndex(S, key) == BitAndMask(computeHash(key), S.indexMask)

advanceIndex(S, index) == BitAndMask(index + 1, S.indexMask)

getListEntry(S, index) == IF index < NoEntry THEN index ELSE NullEntry

ListAt(S, index) == S.list[index + 1]

\* The probe loop shared by findHashEntry and insertHashEntry:
\*   while (m_hashMap[index].version == m_version) { key match: return; advance }
\* It ends at the slot of the key (found) or at the first slot that is not live.
RECURSIVE probe(_, _, _, _)
probe(S, key, index, steps) ==
    IF steps > computeSize(S) THEN [found |-> FALSE, index |-> ProbeDiverges]
    ELSE IF S.hashMap[index].version = S.version
    THEN IF S.hashMap[index].key = key
         THEN [found |-> TRUE, index |-> index]
         ELSE probe(S, key, advanceIndex(S, index), steps + 1)
    ELSE [found |-> FALSE, index |-> index]

findHashEntry(S, key) ==
    IF S.used = 0 THEN NullEntry
    ELSE LET r == probe(S, key, computeIndex(S, key), 0)
         IN  IF r.found THEN r.index ELSE NullEntry

\* The relocation of one entry taken out of its slot:
\*   while (entry.version == m_version) { ...; swap(entry, m_hashMap[index]); }
RECURSIVE skipRelocated(_, _, _)
skipRelocated(S, index, steps) ==
    IF steps > Cardinality(DOMAIN S.hashMap) THEN ProbeDiverges
    ELSE IF S.hashMap[index].version > S.version
    THEN skipRelocated(S, advanceIndex(S, index), steps + 1)
    ELSE index

RECURSIVE relocate(_, _)
relocate(S, entry) ==
    IF entry.version # S.version THEN S
    ELSE LET index == skipRelocated(S, computeIndex(S, entry.key), 0)
             moved == [entry EXCEPT !.version = S.version + 1]
         IN  IF index = ProbeDiverges THEN S
             ELSE relocate([S EXCEPT !.hashMap[index] = moved], S.hashMap[index])

RECURSIVE growLoop(_, _, _)
growLoop(S, i, oldSize) ==
    IF i >= oldSize THEN S
    ELSE LET entry == S.hashMap[i]
             S1 == [S EXCEPT !.hashMap[i].version = 0]
             S2 == relocate(S1, entry)
         IN  \* m_version changes only after the loop; testing it here makes
             \* each iteration complete before the next one starts.
             IF S2.version = S.version THEN growLoop(S2, i + 1, oldSize) ELSE S2

\* The vacant entry std::vector::resize value-initialises.
VacantEntry(type) ==
    [version |-> 0, key |-> 0, data |-> DefaultSlice(type), next |-> 0]

growHashMap(S, newSize, type) ==
    LET oldSize == computeSize(S)
        S1 == [S EXCEPT !.hashMap =
                 [i \in 0..(newSize - 1) |->
                    IF i < oldSize THEN S.hashMap[i] ELSE VacantEntry(type)]]
        S2 == growLoop(S1, 0, oldSize)
    IN  [S2 EXCEPT !.version = @ + 1, !.indexMask = newSize - 1]

growHashMapBeforeInsertFull(S, type) ==
    LET oldSize == computeSize(S)
    IN  IF 10 * S.used >= 10 * oldSize
        THEN growHashMap(S, IF oldSize # 0 THEN oldSize * 2 ELSE InitialHashSize, type)
        ELSE S

growHashMapBeforeInsert(S, type) ==
    LET oldSize == computeSize(S)
    IN  IF 10 * S.used >= 7 * oldSize
        THEN growHashMap(S, IF oldSize # 0 THEN oldSize * 2 ELSE InitialHashSize, type)
        ELSE S

\* insertHashEntry after growHashMapBeforeInsert: returns the set and the
\* existing entry of the key, or places a new entry and returns NullEntry.
placeHashEntry(S, key, data) ==
    LET r == probe(S, key, computeIndex(S, key), 0)
    IN  IF r.found THEN [s |-> S, entry |-> r.index]
        ELSE IF r.index = ProbeDiverges THEN [s |-> S, entry |-> ProbeDiverges]
        ELSE [ s |-> [S EXCEPT
                        !.hashMap[r.index] =
                            [version |-> S.version, key |-> key,
                             data |-> data, next |-> NoEntry],
                        !.used = @ + 1],
               entry |-> NullEntry ]

insertHashEntry(S, key, data) ==
    placeHashEntry(
        growHashMapBeforeInsert(S, IF IsImageSlice(data) THEN "image" ELSE "buffer"),
        key, data)

\* Pushes the slice to the head of the list of the hash entry.
insertListEntry(S, subresource, head) ==
    LET newIndex == Len(S.list)
    IN  [S EXCEPT !.list = Append(@, [data |-> subresource,
                                      next |-> S.hashMap[head].next]),
                  !.hashMap[head].next = newIndex]

\* getAccess: the walk of the overflow list with its early exit.
RECURSIVE accessWalk(_, _, _, _, _)
accessWalk(S, entry, list, slice, access) ==
    IF list = NullEntry \/ access = sliceGetAccess(S.hashMap[entry].data)
    THEN access
    ELSE accessWalk(S, entry, getListEntry(S, ListAt(S, list).next), slice,
                    IF sliceOverlaps(ListAt(S, list).data, slice)
                    THEN access \cup sliceGetAccess(ListAt(S, list).data)
                    ELSE access)

getAccess(S, resource, slice) ==
    LET entry == findHashEntry(S, resource)
    IN  IF entry = NullEntry THEN {}
        ELSE IF ~sliceOverlaps(S.hashMap[entry].data, slice) THEN {}
        ELSE LET list == getListEntry(S, S.hashMap[entry].next)
             IN  IF list = NullEntry
                 THEN sliceGetAccess(S.hashMap[entry].data)
                 ELSE accessWalk(S, entry, list, slice, {})

\* isDirty: the walk of the overflow list, ended by the first dirty entry.
RECURSIVE dirtyWalk(_, _, _, _)
dirtyWalk(S, list, slice, dirty) ==
    IF list = NullEntry \/ dirty THEN dirty
    ELSE dirtyWalk(S, getListEntry(S, ListAt(S, list).next), slice,
                   sliceIsDirty(ListAt(S, list).data, slice))

isDirty(S, resource, slice) ==
    LET entry == findHashEntry(S, resource)
    IN  IF entry = NullEntry THEN FALSE
        ELSE IF ~sliceIsDirty(S.hashMap[entry].data, slice) THEN FALSE
        ELSE LET list == getListEntry(S, S.hashMap[entry].next)
             IN  IF list = NullEntry THEN TRUE
                 ELSE dirtyWalk(S, list, slice, FALSE)

\* The merge scan of insert for image slices: the first list entry the slice
\* can merge with absorbs it.  Returns the set and whether an entry did.
RECURSIVE mergeScan(_, _, _)
mergeScan(S, listEntry, slice) ==
    IF listEntry = NullEntry THEN [s |-> S, merged |-> FALSE]
    ELSE IF sliceCanMerge(ListAt(S, listEntry).data, slice)
    THEN [ s |-> [S EXCEPT !.list[listEntry + 1].data = sliceMerge(@, slice)],
           merged |-> TRUE ]
    ELSE mergeScan(S, getListEntry(S, ListAt(S, listEntry).next), slice)

\* insert, for a key that already has a hash entry: the slice goes to the
\* overflow list, which is created only when the entry cannot absorb it.
insertOverflow(S, hashEntry, slice) ==
    LET listEntry == getListEntry(S, S.hashMap[hashEntry].next)
    IN  IF listEntry # NullEntry
        THEN IF IsImageSlice(slice)
             THEN LET m == mergeScan(S, listEntry, slice)
                  IN  IF m.merged THEN m.s
                      ELSE insertListEntry(S, slice, hashEntry)
             ELSE insertListEntry(S, slice, hashEntry)
        ELSE IF ~sliceCanMerge(S.hashMap[hashEntry].data, slice)
        THEN insertListEntry(
               insertListEntry(S, S.hashMap[hashEntry].data, hashEntry),
               slice, hashEntry)
        ELSE S

mergeHashEntrySkipped(S, hashEntry, slice) == S

\* The hash entry data is merged so that it stores a superset of the list.
mergeHashEntry(S, hashEntry, slice) ==
    [S EXCEPT !.hashMap[hashEntry].data = sliceMerge(@, slice)]

\* insert after insertHashEntry returned r: the set and the existing entry.
insertExisting(r, slice) ==
    IF r.entry = NullEntry \/ r.entry = ProbeDiverges THEN r.s
    ELSE mergeHashEntry(insertOverflow(r.s, r.entry, slice), r.entry, slice)

setInsert(S, resource, slice) ==
    insertExisting(insertHashEntry(S, resource, slice), slice)

setClearNoVersion(S) == [S EXCEPT !.used = 0, !.list = << >>]

setClear(S) == [S EXCEPT !.used = 0, !.version = @ + 1, !.list = << >>]

setEmpty(S) == S.used = 0

(***************************************************************************)
(* State of the range tracker.                                             *)
(***************************************************************************)
VARIABLES
    m_nodes,            \* std::vector<DxvkBarrierTreeNode>
    m_free,             \* std::vector<uint32_t>
    m_root,             \* root node index per bucket
    m_rootMaskValid,    \* set bits of the 64-bit mask
    m_rootMaskSubtree,  \* set bits of the 64-bit mask
    inserted,           \* history: (range, access) pairs inserted since clear()
    lastOp,             \* history: the last call made on the tracker
    nInserts,           \* history: insertRange calls since the last clear()
    nClears             \* history: clear() calls

trackerVars == << m_nodes, m_free, m_root, m_rootMaskValid, m_rootMaskSubtree,
                  inserted, lastOp, nInserts, nClears >>

\* The tracker object assembled from its fields.
Tracker ==
    [ nodes   |-> m_nodes,
      free    |-> m_free,
      root    |-> m_root,
      valid   |-> m_rootMaskValid,
      subtree |-> m_rootMaskSubtree,
      removed |-> 0,
      rootRemoved |-> FALSE ]

NoOp == [op |-> "none", range |-> NullRange, access |-> Read,
         removed |-> 0, rootRemoved |-> FALSE]

TrackerInit ==
    /\ m_nodes = EmptyTracker.nodes
    /\ m_free = EmptyTracker.free
    /\ m_root = EmptyTracker.root
    /\ m_rootMaskValid = EmptyTracker.valid
    /\ m_rootMaskSubtree = EmptyTracker.subtree
    /\ inserted = {}
    /\ lastOp = NoOp
    /\ nInserts = 0
    /\ nClears = 0

SetTracker(T) ==
    /\ m_nodes' = T.nodes
    /\ m_free' = T.free
    /\ m_root' = T.root
    /\ m_rootMaskValid' = T.valid
    /\ m_rootMaskSubtree' = T.subtree

(***************************************************************************)
(* State of the subresource set.                                           *)
(***************************************************************************)
VARIABLES
    sliceType,      \* the template argument T: "buffer" or "image"
    m_version,      \* uint64_t
    m_used,         \* uint64_t
    m_indexMask,    \* size_t
    m_list,         \* std::vector<ListEntry>
    m_hashMap,      \* std::vector<HashEntry>
    setInserted,    \* history: (key, slice) pairs inserted since clear()
    preClear,       \* history: (key, slice) pairs inserted before the last clear()
    setLastOp,      \* history: the last call made on the set
    nextFill,       \* history: the next resource of the fill sequence
    nHot,           \* history: inserts made on the hot resources
    nSetClears,     \* history: clear() calls
    nGrown          \* history: table growths beyond the first allocation since clear()

setVars == << sliceType, m_version, m_used, m_indexMask, m_list, m_hashMap,
              setInserted, preClear, setLastOp, nextFill, nHot, nSetClears, nGrown >>

\* Two slices of the type sliceType that canMerge and merge are called on
\* directly, and the last such call.
VARIABLES
    opA,            \* the slice or tree node the member functions are called on
    opB,            \* the slice passed as their argument, if any
    opResult        \* history: the last call, its operands and its result

sliceVars == << opA, opB, opResult >>

NoCall == [op |-> "none"]

\* No slice operation is under way: the set is used through its interface.
SliceIdle ==
    /\ opA = DefaultSlice(sliceType)
    /\ opB = DefaultSlice(sliceType)
    /\ opResult = NoCall

\* The set object assembled from its fields.
Set ==
    [ version   |-> m_version,
      used      |-> m_used,
      indexMask |-> m_indexMask,
      list      |-> m_list,
      hashMap   |-> m_hashMap ]

SetObjectInit(types) ==
    /\ sliceType \in types
    /\ m_version = EmptySet.version
    /\ m_used = EmptySet.used
    /\ m_indexMask = EmptySet.indexMask
    /\ m_list = EmptySet.list
    /\ m_hashMap = EmptySet.hashMap
    /\ setInserted = {}
    /\ preClear = {}
    /\ setLastOp = "none"
    /\ nextFill = 1
    /\ nHot = 0
    /\ nSetClears = 0
    /\ nGrown = 0

SetInit(types) == SetObjectInit(types) /\ SliceIdle

SetSet(S) ==
    /\ m_version' = S.version
    /\ m_used' = S.used
    /\ m_indexMask' = S.indexMask
    /\ m_list' = S.list
    /\ m_hashMap' = S.hashMap

Intervals(max) == { <<lo, hi>> \in (0..max) \X (0..max) : lo < hi }

Aspects == {"Depth", "Stencil"}

\* Slices passed for the hot resources and as queries.
BufferSlices ==
    { BufferSlice(i[1], i[2] - i[1], {a}) : i \in Intervals(MaxOff), a \in Access }

ImageSlices ==
    { ImageSlice(SubresourceRange({asp}, l[1], l[2] - l[1], m[1], m[2] - m[1]), {a}) :
        asp \in Aspects, l \in Intervals(MaxLayer), m \in Intervals(MaxLevel),
        a \in Access }

Slices(type) == IF type = "image" THEN ImageSlices ELSE BufferSlices

\* The slice inserted for the resource of the fill sequence.
FillSlice(type, key) ==
    LET acc == IF key % 2 = 0 THEN {Write} ELSE {Read}
    IN  IF type = "image"
        THEN ImageSlice(SubresourceRange({"Depth"}, 0, 1, 0, 1), acc)
        ELSE BufferSlice(0, 1, acc)

DoInsert(key, slice) ==
    \E S \in {setInsert(Set, key, slice)} :
        /\ SetSet(S)
        /\ setInserted' = setInserted \cup {[key |-> key, slice |-> slice]}
        /\ setLastOp' = "insert"
        /\ nGrown' = IF m_indexMask # 0 /\ S.indexMask # m_indexMask
                     THEN nGrown + 1 ELSE nGrown
        /\ UNCHANGED << sliceType, preClear, nSetClears, trackerVars, sliceVars >>

InsertHot(key, slice) ==
    /\ nHot < MaxHot
    /\ DoInsert(key, slice)
    /\ nHot' = nHot + 1
    /\ UNCHANGED nextFill

InsertFill ==
    /\ nextFill <= MaxFill
    /\ DoInsert(nextFill, FillSlice(sliceType, nextFill))
    /\ nextFill' = nextFill + 1
    /\ UNCHANGED nHot

\* Slices passed for the resources whose overflow lists are followed.
ListImageSlices ==
    { ImageSlice(SubresourceRange({asp}, l[1], l[2] - l[1], m[1], m[2] - m[1]), {a}) :
        asp \in Aspects, l \in Intervals(MaxListLayer), m \in Intervals(MaxLevel),
        a \in Access }

ListSlices(type) == IF type = "image" THEN ListImageSlices ELSE BufferSlices

\* insert on one of the two resources, into a fresh table or into one that
\* the fill sequence has made grow.
InsertList(key, slice) ==
    /\ nHot < MaxListInserts
    /\ nextFill = 1 \/ nextFill > MaxFill
    /\ DoInsert(key, slice)
    /\ nHot' = nHot + 1
    /\ UNCHANGED nextFill

\* The fill sequence, run before the first insert on the two resources.
FillBeforeList ==
    /\ nHot = 0
    /\ InsertFill

SetClear ==
    /\ nSetClears < MaxSetClears
    /\ nextFill <= MaxPreClearFill + 1
    /\ SetSet(setClear(Set))
    /\ preClear' = preClear \cup setInserted
    /\ setInserted' = {}
    /\ setLastOp' = "clear"
    /\ nextFill' = 1
    /\ nSetClears' = nSetClears + 1
    /\ nGrown' = 0
    /\ UNCHANGED << sliceType, nHot, trackerVars, sliceVars >>

(***************************************************************************)
(* Calls on the range tracker.                                             *)
(***************************************************************************)
InsertRange(range, accessType) ==
    /\ nInserts < MaxInserts
    /\ \E T \in {insertRange(Tracker, range, accessType)} :
           /\ SetTracker(T)
           /\ lastOp' = [op |-> "insert", range |-> range, access |-> accessType,
                         removed |-> T.removed, rootRemoved |-> T.rootRemoved]
    /\ inserted' = inserted \cup {[range |-> range, access |-> accessType]}
    /\ nInserts' = nInserts + 1
    /\ UNCHANGED << nClears, setVars, sliceVars >>

Clear ==
    /\ nClears < MaxClears
    /\ SetTracker(clear(Tracker))
    /\ inserted' = {}
    /\ lastOp' = [NoOp EXCEPT !.op = "clear"]
    /\ nInserts' = 0
    /\ nClears' = nClears + 1
    /\ UNCHANGED << setVars, sliceVars >>

\* The same calls with the history of inserted ranges left out: the
\* algebraic laws are stated on the tracker alone.
InsertRangeLaw(range, accessType) ==
    /\ nInserts < MaxLawInserts
    /\ SetTracker(insertRange(Tracker, range, accessType))
    /\ nInserts' = nInserts + 1
    /\ UNCHANGED << inserted, lastOp, nClears, setVars, sliceVars >>

ClearLaw ==
    /\ nClears < MaxClears
    /\ SetTracker(clear(Tracker))
    /\ nInserts' = 0
    /\ nClears' = nClears + 1
    /\ UNCHANGED << inserted, lastOp, setVars, sliceVars >>

\* insertRange calls with Write access only: all ranges of the model then
\* share one bucket, whose tree grows to its largest size.
InsertRangeTree(range) ==
    /\ nInserts < MaxTreeInserts
    /\ \E T \in {insertRange(Tracker, range, Write)} :
           /\ SetTracker(T)
           /\ lastOp' = [op |-> "insert", range |-> range, access |-> Write,
                         removed |-> T.removed, rootRemoved |-> T.rootRemoved]
    /\ nInserts' = nInserts + 1
    /\ UNCHANGED << inserted, nClears, setVars, sliceVars >>

\* clear(), called before the first insert on the two resources.
ClearBeforeList ==
    /\ nHot = 0
    /\ SetClear

(***************************************************************************)
(* Calls on two slices.                                                    *)
(***************************************************************************)
\* Slices the member functions are called on: every non-empty set of aspects
\* and of access flags, every non-empty range.
OpBufferSlices ==
    { BufferSlice(i[1], i[2] - i[1], acc) :
        i \in Intervals(MaxExtent), acc \in (SUBSET Access) \ {{}} }

OpImageSlices ==
    { ImageSlice(SubresourceRange(asp, l[1], l[2] - l[1], m[1], m[2] - m[1]), acc) :
        asp \in (SUBSET Aspects) \ {{}}, l \in Intervals(MaxExtent),
        m \in Intervals(MaxExtent), acc \in (SUBSET Access) \ {{}} }

OpSlices(type) == IF type = "image" THEN OpImageSlices ELSE OpBufferSlices

\* opA.canMerge(opB)
CallCanMerge ==
    /\ opResult.op # "canMerge"
    /\ opResult' = [op |-> "canMerge", a |-> opA, b |-> opB,
                    value |-> sliceCanMerge(opA, opB)]
    /\ UNCHANGED << opA, opB, trackerVars, setVars >>

\* opA.merge(opB), whether or not canMerge holds.
CallMerge ==
    /\ opResult.op # "merge"
    /\ opA' = sliceMerge(opA, opB)
    /\ opResult' = [op |-> "merge", a |-> opA, b |-> opB,
                    value |-> sliceCanMerge(opA, opB)]
    /\ UNCHANGED << opB, trackerVars, setVars >>

\* Node indices packed into the headers of the model: the lowest, the
\* highest, and two with mixed bits.
SampleIndices ==
    (0..MaxLowIndex) \cup { NodeIndexMask - k : k \in 0..MaxLowIndex }
        \cup { Pow2(IndexBits - 1), (Pow2(IndexBits + 1) - 2) \div 3 }

SampleNodes ==
    { PackedNode(red, c0, c1, par, AddressRange(7, 0, MaxAddr)) :
        red \in BOOLEAN, c0 \in SampleIndices, c1 \in SampleIndices,
        par \in SampleIndices }

\* opA.setChild(index, node)
CallSetChild(index, node) ==
    /\ opResult.op = "none"
    /\ opA' = packedSetChild(opA, index, node)
    /\ opResult' = [op |-> "setChild", before |-> opA, index |-> index, value |-> node]
    /\ UNCHANGED << opB, trackerVars, setVars >>

\* opA.setParent(node)
CallSetParent(node) ==
    /\ opResult.op = "none"
    /\ opA' = packedSetParent(opA, node)
    /\ opResult' = [op |-> "setParent", before |-> opA, value |-> node]
    /\ UNCHANGED << opB, trackerVars, setVars >>

\* opA.setRed(red)
CallSetRed(red) ==
    /\ opResult.op = "none"
    /\ opA' = packedSetRed(opA, red)
    /\ opResult' = [op |-> "setRed", before |-> opA, value |-> red]
    /\ UNCHANGED << opB, trackerVars, setVars >>

vars == << trackerVars, setVars, sliceVars >>

Init == TrackerInit /\ SetInit({"buffer"})

Next ==
    \/ \E range \in Ranges, accessType \in Access : InsertRange(range, accessType)
    \/ Clear

Spec == Init /\ [][Next]_vars

LawNext ==
    \/ \E range \in Ranges, accessType \in Access : InsertRangeLaw(range, accessType)
    \/ ClearLaw

LawSpec == Init /\ [][LawNext]_vars

TreeNext == \E range \in Ranges : InsertRangeTree(range)

TreeSpec == Init /\ [][TreeNext]_vars

\* The bucket tree at its largest size, with clear() calls in between.
PoolNext ==
    \/ \E range \in Ranges : InsertRangeTree(range)
    \/ Clear

PoolSpec == Init /\ [][PoolNext]_vars

\* The subresource set, instantiated for buffer slices or for image slices.
SetNext ==
    \/ \E key \in HotKeys, slice \in Slices(sliceType) : InsertHot(key, slice)
    \/ InsertFill
    \/ SetClear

SetSpecInit == TrackerInit /\ SetInit({"buffer", "image"})

SetSpec == SetSpecInit /\ [][SetNext]_vars

BufferSetSpec == Init /\ [][SetNext]_vars

SliceInit ==
    /\ TrackerInit
    /\ SetObjectInit({"buffer", "image"})
    /\ opA \in OpSlices(sliceType)
    /\ opB \in OpSlices(sliceType)
    /\ opResult = NoCall

SliceNext == CallCanMerge \/ CallMerge

SliceSpec == SliceInit /\ [][SliceNext]_vars

\* A tree node with any header, and one call of a setter on it.
HeaderInit ==
    /\ TrackerInit
    /\ SetObjectInit({"buffer"})
    /\ opA \in SampleNodes
    /\ opB = DefaultSlice(sliceType)
    /\ opResult = NoCall

HeaderNext ==
    \/ \E index \in {0, 1}, node \in SampleIndices : CallSetChild(index, node)
    \/ \E node \in SampleIndices : CallSetParent(node)
    \/ \E red \in BOOLEAN : CallSetRed(red)

HeaderSpec == HeaderInit /\ [][HeaderNext]_vars

ListNext ==
    \/ \E key \in HotKeys, slice \in ListSlices(sliceType) : InsertList(key, slice)
    \/ FillBeforeList
    \/ ClearBeforeList

ListSpec == SetSpecInit /\ [][ListNext]_vars

(***************************************************************************)
(* Reference semantics of the tracker, stated on the history of inserted   *)
(* ranges with plain interval arithmetic.                                  *)
(***************************************************************************)
RefContains(a, q) ==
    a.resource = q.resource /\ a.rangeStart <= q.rangeStart /\ q.rangeEnd <= a.rangeEnd

RefOverlap(a, q) ==
    a.resource = q.resource /\ a.rangeStart <= q.rangeEnd /\ q.rangeStart <= a.rangeEnd

RefUnion(a, b) ==
    [resource |-> a.resource,
     rangeStart |-> IF a.rangeStart < b.rangeStart THEN a.rangeStart ELSE b.rangeStart,
     rangeEnd |-> IF a.rangeEnd > b.rangeEnd THEN a.rangeEnd ELSE b.rangeEnd]

\* A stored access conflicts with an incoming one unless both are reads.
Conflicts(stored, incoming) == stored = Write \/ incoming = Write

InsertedWith(acc) == { e.range : e \in { x \in inserted : x.access = acc } }

\* The merged range of all ranges of S linked to r by a chain of overlaps.
RECURSIVE MergedHull(_, _)
MergedHull(r, S) ==
    LET X == { x \in S : RefOverlap(x, r) /\ ~RefContains(r, x) }
    IN  IF X = {} THEN r ELSE MergedHull(RefUnion(r, CHOOSE x \in X : TRUE), S)

CoveredBy(q, acc) ==
    \E r \in InsertedWith(acc) : RefContains(MergedHull(r, InsertedWith(acc)), q)

RefFind(q, A) == CoveredBy(q, Write) \/ (A = Write /\ CoveredBy(q, Read))

Queries == QueryRanges \X Access

\* The answers of findRange to every query, as the set of queries answered true.
FindAll(T) == { qa \in Queries : findRange(T, qa[1], qa[2]) }

(***************************************************************************)
(* Properties of the range tracker.                                        *)
(***************************************************************************)

C3_ContainsEquivOverlap ==
    \A qa \in Queries :
        findRange(Tracker, qa[1], qa[2]) <=>
            \E e \in inserted :
                Conflicts(e.access, qa[2]) /\ RefOverlap(e.range, qa[1])

\* C8: idempotent insert.  Right after insertRange(r, A), a second
\* insertRange(r, A) leaves the answer to every query unchanged.
C8_IdempotentInsert ==
    lastOp.op = "insert" =>
        FindAll(insertRange(Tracker, lastOp.range, lastOp.access)) = FindAll(Tracker)

\* The last call was an insertRange that removed a dominated node and whose
\* range is now reported as pending.
C8_Witness ==
    /\ lastOp.op = "insert"
    /\ lastOp.removed > 0
    /\ findRange(Tracker, lastOp.range, Write)

\* C9: dominance collapse.  From any reachable tracker, for ranges A and B of
\* one resource and access with B containing A, inserting A then B answers
\* every query as inserting B alone does.
C9_DominanceCollapse ==
    \A A \in Ranges, B \in Ranges, acc \in Access :
        (RefContains(B, A) /\ A # B) =>
            FindAll(insertRange(insertRange(Tracker, A, acc), B, acc))
              = FindAll(insertRange(Tracker, B, acc))

\* A non-empty tracker with ranges A and B, B containing A, where inserting A
\* adds a node that the insertion of B then removes as dominated.
C9_Witness ==
    /\ nInserts > 1
    /\ \E A \in Ranges, B \in Ranges, acc \in Access :
          /\ RefContains(B, A) /\ A # B
          /\ FindAll(insertRange(Tracker, A, acc)) # FindAll(Tracker)
          /\ insertRange(insertRange(Tracker, A, acc), B, acc).removed > 0

\* C10: empty consistency.  empty() iff rootMaskValid == 0 iff every bucket
\* tree is empty, bucket by bucket; empty() is false after an insertRange and
\* true after clear().
C10_EmptyConsistency ==
    /\ empty(Tracker) <=> (m_rootMaskValid = {})
    /\ empty(Tracker) <=> (\A b \in Buckets : m_root[b] = 0)
    /\ \A b \in Buckets : ((b - 1) \in m_rootMaskValid) <=> (m_root[b] # 0)
    /\ lastOp.op = "insert" => ~empty(Tracker)
    /\ lastOp.op = "clear" => empty(Tracker)

\* The last insertRange removed the root of its bucket as a dominated node.
C10_Witness ==
    /\ lastOp.op = "insert"
    /\ lastOp.rootRemoved
    /\ ~empty(Tracker)

(***************************************************************************)
(* Reference semantics of the subresource set, stated on the history of    *)
(* inserted slices with plain interval arithmetic.                         *)
(***************************************************************************)
RefSliceOverlap(a, q) ==
    IF IsImageSlice(a)
    THEN /\ (a.m_aspects \cap q.m_aspects) # {}
         /\ a.m_minLayer < q.m_maxLayer /\ q.m_minLayer < a.m_maxLayer
         /\ a.m_minLevel < q.m_maxLevel /\ q.m_minLevel < a.m_maxLevel
    ELSE a.m_loAddr < q.m_hiAddr /\ q.m_loAddr < a.m_hiAddr

InsertedFor(key) == { e.slice : e \in { x \in setInserted : x.key = key } }

RefDirty(key, q) ==
    \E x \in InsertedFor(key) :
        RefSliceOverlap(x, q) /\ (Write \in (x.m_access \cup q.m_access))

RefAccess(key, q) ==
    UNION { x.m_access : x \in { y \in InsertedFor(key) : RefSliceOverlap(y, q) } }

\* A resource that is never inserted.
AbsentKey == MaxFill + 16

QueryKeys ==
    HotKeys \cup { e.key : e \in setInserted } \cup { e.key : e \in preClear }
            \cup {AbsentKey}

QuerySlices(key) ==
    IF key \in HotKeys THEN Slices(sliceType)
    ELSE {FillSlice(sliceType, 1), FillSlice(sliceType, 2)}

(***************************************************************************)
(* Properties of the subresource set.                                      *)
(***************************************************************************)

\* C4: isDirty is exact.  isDirty(resource, q) is true iff a slice inserted
\* for the resource since the last clear() overlaps q and one of the two has
\* the Write flag.
C4_IsDirtyExact ==
    \A key \in QueryKeys : \A q \in QuerySlices(key) :
        isDirty(Set, key, q) <=> RefDirty(key, q)

\* C5: getAccess is exact.  getAccess(resource, q) is the union of the access
\* flags of the slices inserted for the resource since the last clear() that
\* overlap q.
C5_GetAccessExact ==
    \A key \in QueryKeys : \A q \in QuerySlices(key) :
        getAccess(Set, key, q) = RefAccess(key, q)

\* C6: rehash preserves semantics.  After the table has grown, every key
\* inserted since the last clear() is still found; getAccess on an inserted
\* slice contains its flags (and is exactly them for a key with one slice),
\* and isDirty on an inserted slice with the Write flag is true.
C6_RehashPreserves ==
    nGrown > 0 =>
        \A e \in setInserted :
            /\ findHashEntry(Set, e.key) # NullEntry
            /\ e.slice.m_access \subseteq getAccess(Set, e.key, e.slice)
            /\ (InsertedFor(e.key) = {e.slice})
                 => getAccess(Set, e.key, e.slice) = e.slice.m_access
            /\ (Write \in e.slice.m_access) => isDirty(Set, e.key, e.slice)

\* C7: versioned clear.  Right after clear(), used is 0 and every query is
\* answered empty / false; and at all times a query is answered from the
\* slices inserted since the last clear() alone: getAccess only returns flags
\* of slices inserted since then for that resource, and isDirty is true only
\* if such a slice exists and it or the query has the Write flag.
C7_VersionedClear ==
    /\ setLastOp = "clear" =>
          /\ m_used = 0
          /\ setEmpty(Set)
          /\ \A key \in QueryKeys : \A q \in QuerySlices(key) :
                getAccess(Set, key, q) = {} /\ ~isDirty(Set, key, q)
    /\ \A key \in QueryKeys : \A q \in QuerySlices(key) :
          /\ getAccess(Set, key, q) \subseteq UNION { x.m_access : x \in InsertedFor(key) }
          /\ isDirty(Set, key, q) =>
                \E x \in InsertedFor(key) : Write \in (x.m_access \cup q.m_access)

\* A resource written before the clear() was inserted again after it for
\* reading only, the table has grown since the clear(), and the resource
\* reports the Read flag alone.
C7_Witness ==
    /\ nSetClears > 0
    /\ nGrown > 0
    /\ \E e \in preClear :
          /\ Write \in e.slice.m_access
          /\ InsertedFor(e.key) # {}
          /\ getAccess(Set, e.key, e.slice) = {Read}
          /\ ~isDirty(Set, e.key, [e.slice EXCEPT !.m_access = {Read}])

(***************************************************************************)
(* Shape of the bucket trees.                                              *)
(***************************************************************************)
\* The nodes of the subtree rooted at n, followed for at most fuel links.
RECURSIVE Subtree(_, _, _)
Subtree(T, n, fuel) ==
    IF n = 0 \/ fuel = 0 THEN {}
    ELSE {n} \cup Subtree(T, T.nodes[n].header.c0, fuel - 1)
             \cup Subtree(T, T.nodes[n].header.c1, fuel - 1)

TreeOf(T, b) == Subtree(T, T.root[b], NodeCount(T))

\* Number of black nodes on every path from n to a null link, -1 if two
\* paths differ.
RECURSIVE BlackHeight(_, _, _)
BlackHeight(T, n, fuel) ==
    IF n = 0 THEN 0
    ELSE IF fuel = 0 THEN -1
    ELSE LET l == BlackHeight(T, T.nodes[n].header.c0, fuel - 1)
             r == BlackHeight(T, T.nodes[n].header.c1, fuel - 1)
         IN  IF l < 0 \/ r < 0 \/ l # r THEN -1
             ELSE l + (IF T.nodes[n].header.red THEN 0 ELSE 1)

\* Order by (resource, rangeStart).
RefLt(a, b) ==
    a.resource < b.resource \/ (a.resource = b.resource /\ a.rangeStart < b.rangeStart)

BlackRoot(T, b) == T.root[b] # 0 => ~T.nodes[T.root[b]].header.red

NoRedRed(T, b) ==
    \A n \in TreeOf(T, b) :
        T.nodes[n].header.red =>
            /\ ~T.nodes[T.nodes[n].header.c0].header.red
            /\ ~T.nodes[T.nodes[n].header.c1].header.red

SearchOrder(T, b) ==
    \A n \in TreeOf(T, b) :
        /\ \A m \in Subtree(T, T.nodes[n].header.c0, NodeCount(T)) :
              RefLt(T.nodes[m].addressRange, T.nodes[n].addressRange)
        /\ \A m \in Subtree(T, T.nodes[n].header.c1, NodeCount(T)) :
              RefLt(T.nodes[n].addressRange, T.nodes[m].addressRange)

LinksConsistent(T, b) ==
    /\ T.root[b] # 0 => T.nodes[T.root[b]].header.par = 0
    /\ \A n \in TreeOf(T, b) :
          /\ n \in DOMAIN T.nodes
          /\ \A c \in {T.nodes[n].header.c0, T.nodes[n].header.c1} :
                c # 0 => T.nodes[c].header.par = n
          /\ T.nodes[n].header.c0 # 0 => T.nodes[n].header.c0 # T.nodes[n].header.c1
          /\ n # T.root[b] =>
                LET p == T.nodes[n].header.par
                IN  /\ p \in TreeOf(T, b)
                    /\ (T.nodes[p].header.c0 = n) # (T.nodes[p].header.c1 = n)

(***************************************************************************)
(* Properties of the bucket trees.                                         *)
(***************************************************************************)

\* C11: red-black well-formedness.  After any sequence of insertRange calls
\* every bucket tree has a black root, no red node with a red child, the same
\* number of black nodes on every root-to-null path, the search order by
\* (resource, rangeStart), and mutually consistent parent and child links.
C11_RedBlackWellFormed ==
    \A b \in Buckets :
        /\ BlackRoot(Tracker, b)
        /\ NoRedRed(Tracker, b)
        /\ BlackHeight(Tracker, m_root[b], NodeCount(Tracker)) >= 0
        /\ SearchOrder(Tracker, b)
        /\ LinksConsistent(Tracker, b)

\* The last insertRange removed a dominated node and restarted, and left a
\* tree of at least four nodes with a red node in it.
C11_Witness ==
    /\ lastOp.op = "insert"
    /\ lastOp.removed > 0
    /\ \E b \in Buckets :
          /\ Cardinality(TreeOf(Tracker, b)) >= 4
          /\ \E n \in TreeOf(Tracker, b) : m_nodes[n].header.red

\* The ranges of the nodes of a bucket tree that belong to one resource.
NodesOfResource(T, b, res) ==
    { n \in TreeOf(T, b) : T.nodes[n].addressRange.resource = res }

\* C12: one representative per covered region.  No two nodes of a bucket tree
\* overlap; and inserting a range that contains every range tracked for its
\* resource leaves exactly one node for that resource, equal to that range.
C12_OneRepresentative ==
    /\ \A b \in Buckets : \A n \in TreeOf(Tracker, b) : \A m \in TreeOf(Tracker, b) :
          n # m => ~RefOverlap(m_nodes[n].addressRange, m_nodes[m].addressRange)
    /\ \A B \in Ranges :
          LET b == computeRootIndex(B, Write)
          IN  (\A n \in NodesOfResource(Tracker, b, B.resource) :
                  RefContains(B, m_nodes[n].addressRange))
              => \E T \in {insertRange(Tracker, B, Write)} :
                    /\ Cardinality(NodesOfResource(T, b, B.resource)) = 1
                    /\ \A n \in NodesOfResource(T, b, B.resource) :
                          T.nodes[n].addressRange = B

\* The last insertRange removed at least two dominated nodes of a tree that
\* also holds the other resource, and its range is the one node left for its
\* resource.
C12_Witness ==
    /\ lastOp.op = "insert"
    /\ lastOp.removed >= 2
    /\ \E b \in Buckets :
          /\ \E n \in TreeOf(Tracker, b) :
                m_nodes[n].addressRange.resource # lastOp.range.resource
          /\ \E n \in TreeOf(Tracker, b) : m_nodes[n].addressRange = lastOp.range
          /\ Cardinality(NodesOfResource(Tracker, b, lastOp.range.resource)) = 1

(***************************************************************************)
(* Structure of the subresource set.                                       *)
(***************************************************************************)
\* The slots of the hash table that are live.
LiveSlots(S) ==
    { i \in DOMAIN S.hashMap : S.hashMap[i].version = S.version }

\* The indices of the list entries reachable from the list head index next,
\* followed for at most fuel links.
RECURSIVE ListFrom(_, _, _)
ListFrom(S, next, fuel) ==
    IF next >= NoEntry \/ fuel = 0 \/ next >= Len(S.list) THEN {}
    ELSE {next} \cup ListFrom(S, S.list[next + 1].next, fuel - 1)

ListOfSlot(S, i) == ListFrom(S, S.hashMap[i].next, Len(S.list))

\* The slots that hold the key, and the overflow list of the key.
SlotsOfKey(S, key) == { i \in LiveSlots(S) : S.hashMap[i].key = key }

ListOfKey(S, key) == UNION { ListOfSlot(S, i) : i \in SlotsOfKey(S, key) }

(***************************************************************************)
(* Properties of the overflow lists.                                       *)
(***************************************************************************)

\* C13: superset invariant.  For every live hash entry, every slice that
\* overlaps an entry of its overflow list also overlaps the slice stored in
\* the hash entry, and the access flags of the hash entry include those of
\* every list entry.
C13_SupersetInvariant ==
    \A i \in LiveSlots(Set) : \A l \in ListOfSlot(Set, i) :
        /\ sliceGetAccess(m_list[l + 1].data) \subseteq sliceGetAccess(m_hashMap[i].data)
        /\ \A x \in ListSlices(sliceType) :
              sliceOverlaps(m_list[l + 1].data, x) => sliceOverlaps(m_hashMap[i].data, x)

\* In a table that has grown, a live hash entry has an overflow list of at
\* least three entries, one of them narrower than the hash entry's slice.
C13_Witness ==
    /\ nGrown > 0
    /\ \E i \in LiveSlots(Set) :
          /\ Cardinality(ListOfSlot(Set, i)) >= 3
          /\ \E l \in ListOfSlot(Set, i) : \E x \in ListSlices(sliceType) :
                sliceOverlaps(m_hashMap[i].data, x) /\ ~sliceOverlaps(m_list[l + 1].data, x)

(***************************************************************************)
(* Properties of the slice operations.                                     *)
(***************************************************************************)
\* The two ranges [lo1, hi1) and [lo2, hi2) touch or overlap.
Touch(lo1, hi1, lo2, hi2) == lo1 <= hi2 /\ lo2 <= hi1

SameLayers(a, b) == a.m_minLayer = b.m_minLayer /\ a.m_maxLayer = b.m_maxLayer

SameLevels(a, b) == a.m_minLevel = b.m_minLevel /\ a.m_maxLevel = b.m_maxLevel

\* Exactly one of the two ranges is identical and the other ranges touch.
OneAxisTouch(a, b) ==
    \/ /\ SameLayers(a, b) /\ ~SameLevels(a, b)
       /\ Touch(a.m_minLevel, a.m_maxLevel, b.m_minLevel, b.m_maxLevel)
    \/ /\ SameLevels(a, b) /\ ~SameLayers(a, b)
       /\ Touch(a.m_minLayer, a.m_maxLayer, b.m_minLayer, b.m_maxLayer)

ImageCanMergeCalled == sliceType = "image" /\ opResult.op = "canMerge"

\* C14 as stated: a.canMerge(b) is true exactly when one of the layer and
\* level ranges is identical and the ranges touch or overlap on the other
\* axis, or both are identical and the access flags are equal.
C14_CanMergeAsStated ==
    ImageCanMergeCalled =>
        (opResult.value <=>
            \/ OneAxisTouch(opResult.a, opResult.b)
            \/ /\ SameLayers(opResult.a, opResult.b)
               /\ SameLevels(opResult.a, opResult.b)
               /\ opResult.a.m_access = opResult.b.m_access)

\* C14 amended: a.canMerge(b) is true exactly when one of the layer and level
\* ranges is identical, the access flags are equal and the ranges touch or
\* overlap on the other axis, or both ranges are identical, whatever the
\* access flags and aspects; it is false when neither range is identical.
C14_CanMergeImage ==
    ImageCanMergeCalled =>
        /\ opResult.value <=>
              \/ OneAxisTouch(opResult.a, opResult.b)
                   /\ opResult.a.m_access = opResult.b.m_access
              \/ SameLayers(opResult.a, opResult.b) /\ SameLevels(opResult.a, opResult.b)
        /\ (~SameLayers(opResult.a, opResult.b) /\ ~SameLevels(opResult.a, opResult.b))
              => ~opResult.value

\* canMerge was called on two image slices of one layer and level range with
\* different access flags and different aspects, and returned true.
C14_Witness ==
    /\ ImageCanMergeCalled
    /\ SameLayers(opResult.a, opResult.b) /\ SameLevels(opResult.a, opResult.b)
    /\ opResult.a.m_access # opResult.b.m_access
    /\ opResult.a.m_aspects # opResult.b.m_aspects
    /\ opResult.value

\* C15: merge monotonicity.  After a.merge(b), for buffer and image slices,
\* a overlaps every slice that a or b overlapped before the call, and a's
\* access flags contain those of both, whether or not canMerge(a, b) held.
C15_MergeMonotone ==
    opResult.op = "merge" =>
        /\ sliceGetAccess(opResult.a) \cup sliceGetAccess(opResult.b)
              \subseteq sliceGetAccess(opA)
        /\ \A x \in OpSlices(sliceType) :
              (sliceOverlaps(opResult.a, x) \/ sliceOverlaps(opResult.b, x))
                  => sliceOverlaps(opA, x)

\* merge was called on two slices that canMerge rejects, and the result
\* overlaps a slice that neither operand overlapped.
C15_Witness ==
    /\ opResult.op = "merge"
    /\ ~opResult.value
    /\ \E x \in OpSlices(sliceType) :
          /\ sliceOverlaps(opA, x)
          /\ ~sliceOverlaps(opResult.a, x)
          /\ ~sliceOverlaps(opResult.b, x)

\* The resources inserted since the last clear().
InsertedKeys == { e.key : e \in setInserted }

\* The number of list entries the insert of slice x for the resource key is
\* to add: none for a new resource; for a resource without an overflow list
\* none if its hash entry can merge x, else two; for a resource with a list
\* none if the set holds image slices and a list entry can merge x, else one.
ExpectedListGrowth(key, x) ==
    IF key \notin InsertedKeys THEN 0
    ELSE IF ListOfKey(Set, key) = {}
    THEN IF \E i \in SlotsOfKey(Set, key) : sliceCanMerge(m_hashMap[i].data, x)
         THEN 0 ELSE 2
    ELSE IF /\ sliceType = "image"
            /\ \E l \in ListOfKey(Set, key) : sliceCanMerge(m_list[l + 1].data, x)
    THEN 0 ELSE 1

\* C16: the overflow list grows only when necessary.  In every state, the
\* insert of any slice for any resource adds to m_list exactly the number of
\* entries given by ExpectedListGrowth.
C16_ListGrowthFrame ==
    \A key \in HotKeys \cup {AbsentKey} : \A x \in ListSlices(sliceType) :
        Len(setInsert(Set, key, x).list) = Len(m_list) + ExpectedListGrowth(key, x)

(***************************************************************************)
(* Load factor and termination of the probes.                              *)
(***************************************************************************)

\* Whether the relocation of one entry by growHashMap meets a probe that
\* finds no slot to stop at.
RECURSIVE relocateDiverges(_, _)
relocateDiverges(S, entry) ==
    IF entry.version # S.version THEN FALSE
    ELSE LET index == skipRelocated(S, computeIndex(S, entry.key), 0)
             moved == [entry EXCEPT !.version = S.version + 1]
         IN  IF index = ProbeDiverges THEN TRUE
             ELSE relocateDiverges([S EXCEPT !.hashMap[index] = moved],
                                   S.hashMap[index])

\* Whether the relocation loop of growHashMap, from slot i on, does.
RECURSIVE growLoopDiverges(_, _, _)
growLoopDiverges(S, i, oldSize) ==
    IF i >= oldSize THEN FALSE
    ELSE LET entry == S.hashMap[i]
             S1 == [S EXCEPT !.hashMap[i].version = 0]
             S2 == relocate(S1, entry)
         IN  IF relocateDiverges(S1, entry) THEN TRUE
             ELSE IF S2.version = S.version
             THEN growLoopDiverges(S2, i + 1, oldSize)
             ELSE TRUE

\* Whether the growth the next insert starts with, if any, diverges.
growDiverges(S, type) ==
    LET oldSize == computeSize(S)
        newSize == IF oldSize # 0 THEN oldSize * 2 ELSE InitialHashSize
        S1 == [S EXCEPT !.hashMap =
                 [i \in 0..(newSize - 1) |->
                    IF i < oldSize THEN S.hashMap[i] ELSE VacantEntry(type)]]
    IN  /\ 10 * S.used >= 7 * oldSize
        /\ growLoopDiverges(S1, 0, oldSize)

ProbeKeys == HotKeys \cup {1, MaxFill, AbsentKey}

\* C17: load-factor bound and probe termination.  Once the table is
\* allocated at least one hash slot is not live, after each insert
\* 10 * (used - 1) < 7 * capacity, and the probes of findHashEntry, of
\* insertHashEntry and of the relocation in growHashMap all come to an end.
C17_LoadFactorBound ==
    /\ computeSize(Set) # 0 =>
          /\ Cardinality(LiveSlots(Set)) < computeSize(Set)
          /\ \A key \in ProbeKeys :
                probe(Set, key, computeIndex(Set, key), 0).index # ProbeDiverges
    /\ setLastOp = "insert" => 10 * (m_used - 1) < 7 * computeSize(Set)
    /\ ~growDiverges(Set, sliceType)
    /\ \A key \in ProbeKeys :
          insertHashEntry(Set, key, FillSlice(sliceType, 1)).entry # ProbeDiverges

\* The table has grown to 128 slots and holds both resources that hash to
\* the same slot of the 64 slot table.
C17_Witness ==
    /\ computeSize(Set) = 2 * InitialHashSize
    /\ setLastOp = "insert"
    /\ m_used >= MaxFill
    /\ \A key \in HotKeys : SlotsOfKey(Set, key) # {}

(***************************************************************************)
(* Hazards of one resource.                                                *)
(***************************************************************************)

\* C18: no missed hazard on a single resource.  For the slices inserted for
\* a resource since the last clear(), isDirty(resource, q) is true whenever
\* an inserted slice overlaps q and one of the two has the Write flag, and
\* getAccess(resource, q) contains the flags of every inserted slice that
\* overlaps q.
C18_NoMissedHazard ==
    \A key \in HotKeys : \A q \in ListSlices(sliceType) :
        /\ RefDirty(key, q) => isDirty(Set, key, q)
        /\ RefAccess(key, q) \subseteq getAccess(Set, key, q)

(***************************************************************************)
(* Keys of the hash table.                                                 *)
(***************************************************************************)

\* C19: hash-table key uniqueness and count.  No two live hash slots hold
\* the same resource key, and m_used is the number of live hash slots, which
\* is the number of distinct resources inserted since the last clear().
C19_KeyUniqueCount ==
    /\ \A i, j \in LiveSlots(Set) :
          m_hashMap[i].key = m_hashMap[j].key => i = j
    /\ m_used = Cardinality(LiveSlots(Set))
    /\ Cardinality(LiveSlots(Set)) = Cardinality(InsertedKeys)

(***************************************************************************)
(* Insertion order of the range tracker.                                   *)
(***************************************************************************)

\* The ranges held by the nodes of the bucket trees of one access.
TrackedRanges(T, acc) ==
    UNION { { T.nodes[n].addressRange :
                n \in TreeOf(T, computeRootIndex(AddressRange(res, 0, 0), acc)) } :
            res \in Resources }

\* The merged ranges of the groups of inserted ranges of one access that are
\* linked by overlaps: a function of the set of inserted ranges alone.
MergedRanges(acc) ==
    { MergedHull(r, InsertedWith(acc)) : r \in InsertedWith(acc) }

\* C20: insertion-order independence.  The ranges tracked for each access,
\* and with them the answer of findRange to every query, are determined by
\* the set of ranges inserted since the last clear(), whatever the order of
\* the insertRange calls and the shape of the trees.
C20_OrderIndependent ==
    /\ \A acc \in Access : TrackedRanges(Tracker, acc) = MergedRanges(acc)
    /\ FindAll(Tracker) =
          { qa \in Queries :
              \E acc \in Access :
                  /\ Conflicts(acc, qa[2])
                  /\ \E r \in MergedRanges(acc) : RefContains(r, qa[1]) }

\* Three different ranges were inserted, the last one merged with a tracked
\* range, and a bucket tree holds two nodes.
C20_Witness ==
    /\ nInserts = MaxInserts
    /\ Cardinality(inserted) = MaxInserts
    /\ lastOp.op = "insert"
    /\ lastOp.removed > 0
    /\ \E acc \in Access : Cardinality(TrackedRanges(Tracker, acc)) > 1

(***************************************************************************)
(* The node pool.                                                          *)
(***************************************************************************)

\* The indices on the freelist, those of the nodes of the bucket trees, and
\* those a node of a bucket tree names as its parent or as a child.
FreeIndices(T) == { T.free[i] : i \in 1..Len(T.free) }

Reachable(T) == UNION { TreeOf(T, b) : b \in Buckets }

Referenced(T) ==
    UNION { { parent(T.nodes[n]), child(T.nodes[n], 0), child(T.nodes[n], 1) } :
            n \in Reachable(T) }

\* C21: node pool safety.  allocateNode never returns index 0, no index is
\* on the freelist more than once, no index on the freelist is a node of a
\* bucket tree or named as parent or child by one; and a dominated node is
\* out of its tree and named by no node of a tree when it is pushed to the
\* freelist, from which the next allocateNode takes it.
C21_NodePoolSafety ==
    /\ allocateNode(Tracker).index # 0
    /\ \A i, j \in 1..Len(m_free) : m_free[i] = m_free[j] => i = j
    /\ FreeIndices(Tracker) \cap (Reachable(Tracker) \cup Referenced(Tracker)) = {}
    /\ \A b \in Buckets : \A n \in TreeOf(Tracker, b) :
          /\ \E T \in {removeNode(Tracker, n, b)} :
                /\ n \notin Reachable(T)
                /\ n \notin Referenced(T)
                /\ Reachable(T) = Reachable(Tracker) \ {n}
          /\ allocateNode(dropNode(Tracker, n, b)).index = n

\* The last insertRange removed two dominated nodes and attached its node
\* at the index of one of them; the other is on the freelist, and the tree
\* holds further nodes.
C21_Witness ==
    /\ lastOp.op = "insert"
    /\ lastOp.removed > 1
    /\ Len(m_free) > 0
    /\ Cardinality(Reachable(Tracker)) > 1
    /\ Cardinality(Reachable(Tracker)) + Len(m_free) = NodeCount(Tracker) - 1

(***************************************************************************)
(* The packed node header.                                                 *)
(***************************************************************************)

\* The packed fields a setter call is to leave alone.
SameRed(a, b) == packedIsRed(a) = packedIsRed(b)
SameChild(a, b, index) == packedChild(a, index) = packedChild(b, index)
SameParent(a, b) == packedParent(a) = packedParent(b)

\* C22: packed node header round trip and frame.  After setChild(index, v),
\* setParent(v) or setRed(b) on a node with any header, for v within the 21
\* bits of an index, the matching getter returns the value just set, the
\* other three packed fields are as before, and so is the address range.
C22_HeaderRoundTrip ==
    /\ opResult.op = "setChild" =>
          /\ packedChild(opA, opResult.index) = opResult.value
          /\ SameChild(opA, opResult.before, 1 - opResult.index)
          /\ SameParent(opA, opResult.before)
          /\ SameRed(opA, opResult.before)
          /\ opA.addressRange = opResult.before.addressRange
    /\ opResult.op = "setParent" =>
          /\ packedParent(opA) = opResult.value
          /\ SameChild(opA, opResult.before, 0)
          /\ SameChild(opA, opResult.before, 1)
          /\ SameRed(opA, opResult.before)
          /\ opA.addressRange = opResult.before.addressRange
    /\ opResult.op = "setRed" =>
          /\ packedIsRed(opA) = opResult.value
          /\ SameChild(opA, opResult.before, 0)
          /\ SameChild(opA, opResult.before, 1)
          /\ SameParent(opA, opResult.before)
          /\ opA.addressRange = opResult.before.addressRange

\* setChild(1, v) has replaced the highest index by one of mixed bits in a
\* header whose other fields all hold the highest index.
C22_Witness ==
    /\ opResult.op = "setChild"
    /\ opResult.index = 1
    /\ packedChild(opResult.before, 1) = NodeIndexMask
    /\ packedChild(opA, 0) = NodeIndexMask
    /\ packedParent(opA) = NodeIndexMask
    /\ packedIsRed(opA)
    /\ opResult.value \notin {0, NodeIndexMask}
    /\ opA.header # opResult.before.header

=============================================================================
